---- MODULE Spec2Model ----
(***************************************************************************)
(* Doctor Booking System.                                                  *)
(*                                                                         *)
(* Two independent programs live in the repository:                        *)
(*   - the backend (server.js + db.js): Express handlers over a SQLite     *)
(*     file opened with better-sqlite3, foreign keys ON;                   *)
(*   - the demo frontend (app.js): a single-page app over an in-memory     *)
(*     `state` object mirrored to localStorage.                            *)
(*                                                                         *)
(* Backend granularity.  The unit of atomicity of the store is one SQL     *)
(* statement (autocommit) or one db.transaction(...).  A handler issues    *)
(* its statements one after the other; between two statements of one       *)
(* request the statements of other requests on the same database file may  *)
(* commit.  Every statement of a handler is therefore one action, and the  *)
(* local values a handler keeps between statements (the row it read, the   *)
(* uuid it generated) are part of the request's state.  Inside one Node     *)
(* process better-sqlite3 is synchronous and a handler runs to completion;  *)
(* the interleavings are those of several server processes (or any other    *)
(* writer) on the same data.db, the setting section 5 of the specification  *)
(* prescribes: "no cooperative single-threaded assumption may be made".     *)
(*                                                                         *)
(* A behaviour runs one of the two programs (variable `program`); the      *)
(* other one stays in its initial state.                                   *)
(***************************************************************************)
EXTENDS Naturals, FiniteSets, Sequences, TLC

\* ---------------------------------------------------------------- bounds
MaxCalls == 3        \* requests the backend accepts in one behaviour
MaxRace == 3         \* N, the book calls of the booking race
MaxClicks == 5       \* user actions on the demo page in one behaviour

\* ------------------------------------------------------------ value sets
None == "none"                         \* undefined / absent JSON field / NULL

UuidPool == <<"u1", "u2", "u3", "u4", "u5", "u6", "u7", "u8">>
\* mutant: the generator hands out the same id again
uuidv4Repeating(n) == UuidPool[1]
uuidv4(n) == UuidPool[n]

SeedDoctorIds == {"D001", "D002"}

Today == "today"
Dates == {Today, "2024-01-10"}
Times == {"09:00", "09:30", "10:00"}
BookInputs ==
  {[slotId |-> "SL1", patientName |-> "Alice"],
   [slotId |-> "SL3", patientName |-> "Alice"],
   [slotId |-> "SL1", patientName |-> ""],
   [slotId |-> "SL1", patientName |-> "  "]}

\* the requests the clients send
PatchedSlots == {"SL1"}
Patches ==
  {[doctorId |-> d, date |-> dt, time |-> t] :
     d \in {None, "D009"}, dt \in {None, "2024-01-10"}, t \in {None, "10:00"}}
TargetSlots == {"SL1", "SL3"}
\* what the user enters in the date and time fields of the slot form
SlotForms ==
  {[date |-> "2024-01-10", time |-> "11:00"],
   [date |-> "2024-01-10", time |-> ""]}

\* what the user types into the doctor form
DoctorForms ==
  {[id |-> "D001", name |-> "Dr. New", speciality |-> "", room |-> ""],
   [id |-> "D009", name |-> "Dr. New", speciality |-> "ENT", room |-> "12"],
   [id |-> "D009", name |-> "", speciality |-> "", room |-> ""]}
DoctorInputs ==
  {[id |-> "D001", name |-> "Dr. New", speciality |-> None, room |-> None],
   [id |-> "D009", name |-> "Dr. New", speciality |-> "ENT", room |-> None],
   [id |-> "D009", name |-> "", speciality |-> None, room |-> None],
   [id |-> "D001", name |-> "", speciality |-> None, room |-> None]}

DoctorPatches ==
  {[name |-> "Dr. New", speciality |-> None, room |-> None],
   [name |-> None, speciality |-> "ENT", room |-> "12"]}

\* the request contexts in flight together
Reqs == {1, 2}

\* ------------------------------------------------------------- variables
VARIABLES
  program,       \* which of the two programs this behaviour runs
  db,            \* backend: the SQLite tables doctors, slots, appointments
  req,           \* backend: the request contexts (handler position, locals)
  uuids,         \* backend: how many uuids uuidv4() has handed out
  calls,         \* backend: how many requests have been accepted
  cancelled,     \* history: <<id, slot>> of the appointments deleted so far
  state,         \* frontend: state.doctors, state.slots, state.appointments
  modal,         \* frontend: the form shown in the modal, if any
  uids,          \* frontend: how many ids uid() has handed out
  event,         \* frontend: the handler that ran last, its argument, its alert
  clicks         \* frontend: how many user actions have been handled

backend == <<db, req, uuids, calls>>
frontend == <<state, modal, uids, event, clicks>>
vars == <<program, db, req, uuids, calls, cancelled,
          state, modal, uids, event, clicks>>

\* ------------------------------------------------------- schema (db.js)
DoctorRow(id, name, speciality, room) ==
  [id |-> id, name |-> name, speciality |-> speciality, room |-> room]

SlotRow(id, doctorId, date, time) ==
  [id |-> id, doctor_id |-> doctorId, date |-> date, time |-> time]

\* (patient_phone and reason are carried along untouched and left out)
AppointmentRow(id, slotId, patientName, createdAt) ==
  [id |-> id, slot_id |-> slotId, patient_name |-> patientName,
   status |-> "Confirmed", created_at |-> createdAt]

SeedDb ==
  [doctors |-> {DoctorRow("D001", "Dr. Asha Mehta", "General Physician", "101"),
                DoctorRow("D002", "Dr. Rajesh Singh", "Cardiologist", "201")},
   slots |-> {SlotRow("SL1", "D001", Today, "09:00"),
              SlotRow("SL2", "D001", Today, "09:30"),
              SlotRow("SL3", "D002", Today, "10:00")},
   appointments |-> {}]

\* ------------------------------------------------------- store queries
HasDoctor(d, id) == \E x \in d.doctors : x.id = id
HasSlot(d, id) == \E x \in d.slots : x.id = id
HasAppointment(d, id) == \E x \in d.appointments : x.id = id
SlotBooked(d, slotId) == \E a \in d.appointments : a.slot_id = slotId
GetSlot(d, id) == CHOOSE x \in d.slots : x.id = id
GetDoctor(d, id) == CHOOSE x \in d.doctors : x.id = id
GetAppointment(d, id) == CHOOSE x \in d.appointments : x.id = id

\* ------------------------------------------------- store write statements
\* each yields [ok, err, db]: the statement either commits or throws, and a
\* statement that throws is rolled back
Committed(d) == [ok |-> TRUE, err |-> None, db |-> d]
Thrown(code, d) == [ok |-> FALSE, err |-> code, db |-> d]

\* mutant: doctors.id is not a key
InsertDoctorNoPrimaryKey(d, row) ==
  Committed([d EXCEPT !.doctors = @ \cup {row}])

\* INSERT INTO doctors: id TEXT PRIMARY KEY
InsertDoctor(d, row) ==
  IF HasDoctor(d, row.id)
    THEN Thrown("SQLITE_CONSTRAINT_PRIMARYKEY", d)
    ELSE Committed([d EXCEPT !.doctors = @ \cup {row}])

\* mutant: foreign keys not enforced on slots.doctor_id
InsertSlotNoForeignKey(d, row) ==
  IF HasSlot(d, row.id)
    THEN Thrown("SQLITE_CONSTRAINT_PRIMARYKEY", d)
    ELSE Committed([d EXCEPT !.slots = @ \cup {row}])

\* INSERT INTO slots: id TEXT PRIMARY KEY, FOREIGN KEY (doctor_id)
\* REFERENCES doctors(id)
InsertSlot(d, row) ==
  IF HasSlot(d, row.id)
    THEN Thrown("SQLITE_CONSTRAINT_PRIMARYKEY", d)
    ELSE IF ~HasDoctor(d, row.doctor_id)
      THEN Thrown("SQLITE_CONSTRAINT_FOREIGNKEY", d)
      ELSE Committed([d EXCEPT !.slots = @ \cup {row}])

\* mutant: no UNIQUE on slot_id
InsertAppointmentNoUnique(d, row) ==
  IF HasAppointment(d, row.id)
    THEN Thrown("SQLITE_CONSTRAINT_PRIMARYKEY", d)
    ELSE IF ~HasSlot(d, row.slot_id)
      THEN Thrown("SQLITE_CONSTRAINT_FOREIGNKEY", d)
      ELSE Committed([d EXCEPT !.appointments = @ \cup {row}])

\* mutant: INSERT OR REPLACE, the newcomer displaces the appointment
InsertAppointmentOrReplace(d, row) ==
  IF ~HasSlot(d, row.slot_id)
    THEN Thrown("SQLITE_CONSTRAINT_FOREIGNKEY", d)
    ELSE Committed([d EXCEPT !.appointments =
           {a \in @ : a.slot_id # row.slot_id /\ a.id # row.id} \cup {row}])

\* mutant: foreign keys not enforced on appointments.slot_id
InsertAppointmentNoForeignKey(d, row) ==
  IF HasAppointment(d, row.id)
    THEN Thrown("SQLITE_CONSTRAINT_PRIMARYKEY", d)
    ELSE IF SlotBooked(d, row.slot_id)
      THEN Thrown("SQLITE_CONSTRAINT_UNIQUE", d)
      ELSE Committed([d EXCEPT !.appointments = @ \cup {row}])

\* mutant: the row of a statement that fails its foreign key check stays
InsertAppointmentNoRollback(d, row) ==
  IF HasAppointment(d, row.id)
    THEN Thrown("SQLITE_CONSTRAINT_PRIMARYKEY", d)
    ELSE IF SlotBooked(d, row.slot_id)
      THEN Thrown("SQLITE_CONSTRAINT_UNIQUE", d)
      ELSE IF ~HasSlot(d, row.slot_id)
        THEN Thrown("SQLITE_CONSTRAINT_FOREIGNKEY",
                    [d EXCEPT !.appointments = @ \cup {row}])
        ELSE Committed([d EXCEPT !.appointments = @ \cup {row}])

\* INSERT INTO appointments: id TEXT PRIMARY KEY, slot_id TEXT NOT NULL
\* UNIQUE, FOREIGN KEY (slot_id) REFERENCES slots(id); the indexes are
\* checked at the row insert, the foreign key at the end of the statement
InsertAppointment(d, row) ==
  IF HasAppointment(d, row.id)
    THEN Thrown("SQLITE_CONSTRAINT_PRIMARYKEY", d)
    ELSE IF SlotBooked(d, row.slot_id)
      THEN Thrown("SQLITE_CONSTRAINT_UNIQUE", d)
      ELSE IF ~HasSlot(d, row.slot_id)
        THEN Thrown("SQLITE_CONSTRAINT_FOREIGNKEY", d)
        ELSE Committed([d EXCEPT !.appointments = @ \cup {row}])

\* UPDATE slots SET doctor_id = ?, date = ?, time = ? WHERE id = ?
UpdateSlotRow(d, id, doctorId, date, time) ==
  IF ~HasSlot(d, id)
    THEN Committed(d)
    ELSE IF ~HasDoctor(d, doctorId)
      THEN Thrown("SQLITE_CONSTRAINT_FOREIGNKEY", d)
      ELSE Committed([d EXCEPT !.slots =
             {IF x.id = id THEN SlotRow(id, doctorId, date, time) ELSE x
                : x \in @}])

\* mutant: the UPDATE has no WHERE clause
UpdateDoctorRowAll(d, id, name, speciality, room) ==
  [d EXCEPT !.doctors = {DoctorRow(x.id, name, speciality, room) : x \in @}]

\* UPDATE doctors SET name = ?, speciality = ?, room = ? WHERE id = ?
UpdateDoctorRow(d, id, name, speciality, room) ==
  [d EXCEPT !.doctors =
     {IF x.id = id THEN DoctorRow(id, name, speciality, room) ELSE x
        : x \in @}]

\* mutant: the cascade stops at the slots
DeleteDoctorRowSlotsOnly(d, id) ==
  [doctors |-> {x \in d.doctors : x.id # id},
   slots |-> {x \in d.slots : x.doctor_id # id},
   appointments |-> d.appointments]

\* DELETE FROM doctors WHERE id = ?   (ON DELETE CASCADE, twice)
DeleteDoctorRow(d, id) ==
  LET goneSlots == {s.id : s \in {x \in d.slots : x.doctor_id = id}}
  IN [doctors |-> {x \in d.doctors : x.id # id},
      slots |-> {x \in d.slots : x.doctor_id # id},
      appointments |-> {a \in d.appointments : a.slot_id \notin goneSlots}]

\* mutant: the delete takes the doctor's other slots along
DeleteSlotRowOfDoctor(d, id) ==
  LET owner == {x.doctor_id : x \in {y \in d.slots : y.id = id}}
      gone == {x.id : x \in {y \in d.slots : y.doctor_id \in owner}}
  IN [d EXCEPT !.slots = {x \in @ : x.id \notin gone},
               !.appointments = {a \in @ : a.slot_id \notin gone}]

\* DELETE FROM slots WHERE id = ?     (ON DELETE CASCADE)
DeleteSlotRow(d, id) ==
  [d EXCEPT !.slots = {x \in @ : x.id # id},
            !.appointments = {a \in @ : a.slot_id # id}]

\* mutant: the cancellation removes the slot as well
DeleteAppointmentRowAndSlot(d, id) ==
  LET gone == {a.slot_id : a \in {x \in d.appointments : x.id = id}}
  IN [d EXCEPT !.slots = {x \in @ : x.id \notin gone},
               !.appointments = {a \in @ : a.id # id}]

\* mutant: the cancellation is a status change, not a deletion
DeleteAppointmentRowSoft(d, id) ==
  [d EXCEPT !.appointments =
     {IF a.id = id THEN [a EXCEPT !.status = "Cancelled"] ELSE a : a \in @}]

\* DELETE FROM appointments WHERE id = ?
DeleteAppointmentRow(d, id) ==
  [d EXCEPT !.appointments = {a \in @ : a.id # id}]

\* ------------------------------------------------- request contexts
NoSlot == SlotRow(None, None, None, None)
NoDoctor == DoctorRow(None, None, None, None)
NoAppointment ==
  [id |-> None, slot_id |-> None, patient_name |-> None, status |-> None,
   created_at |-> 0]

\* req.params / req.body of the request, the handler's locals (s, doc, id),
\* and the response once it is sent (body: the appointment a book call
\* returns)
Idle ==
  [op |-> None, pc |-> "idle",
   id |-> None, doctorId |-> None, date |-> None, time |-> None,
   name |-> None, speciality |-> None, room |-> None, patientName |-> None,
   s |-> NoSlot, doc |-> NoDoctor, newId |-> None, createdAt |-> 0,
   status |-> 0, error |-> None, body |-> NoAppointment]

\* res.status(code).json(...) and return: the handler's locals are gone
Reply(q, code, error) ==
  [Idle EXCEPT !.pc = "done", !.op = q.op, !.id = q.id,
               !.status = code, !.error = error]

Accept == calls < MaxCalls /\ calls' = calls + 1

\* new Date(): the clock reading of the n-th request (or user action); the
\* clock advances from one to the next
Now(n) == n

\* the names that are empty or whitespace only
Blank == {"", " ", "  "}

\* mutant: the name is taken as typed
trimNot(v) == v

\* trim() of express-validator and String.prototype.trim: whitespace-only
\* strings become empty (the other modelled strings have no whitespace at
\* their ends)
trim(v) == IF v \in Blank THEN "" ELSE v

\* express-validator chains, as far as the modelled inputs can fail them
notEmpty(v) == v # None /\ v # ""
isISO8601(v) == v \in Dates
matchesHHMM(v) == v \in Times
optional(v, ok) == v = None \/ ok

\* a || b of JavaScript on strings: the empty string and undefined are falsy
OrElse(a, b) == IF a = None \/ a = "" THEN b ELSE a

Arrive(op, id) == [Idle EXCEPT !.op = op, !.id = id]

\* a request is served by the first context that is not in use; a context
\* keeps the response it sent until it serves the next request
InUse(r) == req[r].pc \notin {"idle", "done"}
Server(r) == program = "server" /\ r \in DOMAIN req
Free(r) == Server(r) /\ ~InUse(r) /\ \A o \in DOMAIN req : o < r => InUse(o)
At(r, op, pc) == Server(r) /\ req[r].op = op /\ req[r].pc = pc

\* ------------------------------------------------------------- DOCTORS
\* POST /doctors: validation, then one INSERT
CreateDoctor(r, id, name, speciality, room) ==
  /\ Free(r)
  /\ Accept
  /\ LET q == [Arrive("createDoctor", trim(id)) EXCEPT
                 !.name = trim(name), !.speciality = speciality, !.room = room]
         ins == InsertDoctor(db, DoctorRow(q.id, q.name, OrElse(speciality, None),
                                           OrElse(room, None)))
     IN IF ~(notEmpty(q.id) /\ notEmpty(q.name))
          THEN /\ req' = [req EXCEPT ![r] = Reply(q, 400, "validation")]
               /\ db' = db
          ELSE IF ins.ok
            THEN /\ req' = [req EXCEPT ![r] = Reply(q, 201, None)]
                 /\ db' = ins.db
            ELSE /\ req' = [req EXCEPT ![r] =
                       IF ins.err = "SQLITE_CONSTRAINT_PRIMARYKEY"
                         THEN Reply(q, 409, "Doctor ID already exists")
                         ELSE Reply(q, 500, "Internal error")]
                 /\ db' = ins.db
  /\ UNCHANGED <<frontend, program, uuids, cancelled>>

\* PUT /doctors/:id, first statement: SELECT * FROM doctors WHERE id = ?
UpdateDoctorSelect(r, id, name, speciality, room) ==
  /\ Free(r)
  /\ Accept
  /\ LET q == [Arrive("updateDoctor", id) EXCEPT
                 !.name = name, !.speciality = speciality, !.room = room]
     IN req' = [req EXCEPT ![r] =
          IF ~HasDoctor(db, id)
            THEN Reply(q, 404, "Doctor not found")
            ELSE [q EXCEPT !.pc = "write", !.doc = GetDoctor(db, id)]]
  /\ UNCHANGED <<frontend, program, db, uuids, cancelled>>

\* PUT /doctors/:id, second statement: UPDATE doctors ... WHERE id = ?
\* (destructuring defaults apply to undefined only)
UpdateDoctorWrite(r) ==
  /\ At(r, "updateDoctor", "write")
  /\ LET q == req[r]
         name == IF q.name = None THEN q.doc.name ELSE q.name
         speciality == IF q.speciality = None THEN q.doc.speciality
                                               ELSE q.speciality
         room == IF q.room = None THEN q.doc.room ELSE q.room
     IN /\ db' = UpdateDoctorRow(db, q.id, name, speciality, room)
        /\ req' = [req EXCEPT ![r] = Reply(q, 200, None)]
  /\ UNCHANGED <<frontend, calls, program, uuids, cancelled>>

\* DELETE /doctors/:id: one DELETE, the cascade is part of the statement
DeleteDoctor(r, id) ==
  /\ Free(r)
  /\ Accept
  /\ db' = DeleteDoctorRow(db, id)
  /\ cancelled' = cancelled \cup
        {<<a.id, a.slot_id>> : a \in db.appointments \ db'.appointments}
  /\ req' = [req EXCEPT ![r] = Reply(Arrive("deleteDoctor", id), 204, None)]
  /\ UNCHANGED <<frontend, program, uuids>>

\* --------------------------------------------------------------- SLOTS
\* mutant: the handler does not look the doctor up
CreateSlotSelectUnchecked(r, doctorId, date, time) ==
  /\ Free(r)
  /\ Accept
  /\ req' = [req EXCEPT ![r] =
       [Arrive("createSlot", None) EXCEPT
          !.doctorId = doctorId, !.date = date, !.time = time,
          !.pc = "insert", !.newId = uuidv4(uuids + 1)]]
  /\ uuids' = uuids + 1
  /\ UNCHANGED <<frontend, program, db, cancelled>>

\* POST /slots, first statement: SELECT * FROM doctors WHERE id = ?
CreateSlotSelect(r, doctorId, date, time) ==
  /\ Free(r)
  /\ Accept
  /\ LET q == [Arrive("createSlot", None) EXCEPT
                 !.doctorId = doctorId, !.date = date, !.time = time]
     IN IF ~(notEmpty(doctorId) /\ isISO8601(date) /\ matchesHHMM(time))
          THEN /\ req' = [req EXCEPT ![r] = Reply(q, 400, "validation")]
               /\ uuids' = uuids
          ELSE IF ~HasDoctor(db, doctorId)
            THEN /\ req' = [req EXCEPT ![r] = Reply(q, 400, "Doctor not found")]
                 /\ uuids' = uuids
            ELSE /\ req' = [req EXCEPT ![r] =
                       [q EXCEPT !.pc = "insert", !.newId = uuidv4(uuids + 1)]]
                 /\ uuids' = uuids + 1
  /\ UNCHANGED <<frontend, program, db, cancelled>>

\* POST /slots, second statement: INSERT INTO slots
CreateSlotInsert(r) ==
  /\ At(r, "createSlot", "insert")
  /\ LET q == req[r]
         ins == InsertSlot(db, SlotRow(q.newId, q.doctorId, q.date, q.time))
     IN IF ins.ok
          THEN /\ db' = ins.db
               /\ req' = [req EXCEPT ![r] = Reply(q, 201, None)]
          ELSE /\ db' = ins.db
               /\ req' = [req EXCEPT ![r] = Reply(q, 500, "Internal error")]
  /\ UNCHANGED <<frontend, calls, program, uuids, cancelled>>

\* PUT /slots/:id, first statement: SELECT * FROM slots WHERE id = ?
UpdateSlotSelect(r, id, doctorId, date, time) ==
  /\ Free(r)
  /\ Accept
  /\ LET q == [Arrive("updateSlot", id) EXCEPT
                 !.doctorId = doctorId, !.date = date, !.time = time]
     IN req' = [req EXCEPT ![r] =
          IF ~(optional(date, isISO8601(date)) /\ optional(time, matchesHHMM(time)))
            THEN Reply(q, 400, "validation")
            ELSE IF ~HasSlot(db, id)
              THEN Reply(q, 404, "Slot not found")
              ELSE [q EXCEPT !.pc = "check", !.s = GetSlot(db, id)]]
  /\ UNCHANGED <<frontend, program, db, uuids, cancelled>>

\* mutant: only a change of doctor is refused on a booked slot
UpdateSlotCheckDoctorOnly(r) ==
  /\ At(r, "updateSlot", "check")
  /\ req' = [req EXCEPT ![r] =
       IF SlotBooked(db, req[r].id) /\ req[r].doctorId # None
         THEN Reply(req[r], 409, "Cannot edit slot with an existing appointment")
         ELSE [req[r] EXCEPT !.pc = "write"]]
  /\ UNCHANGED <<frontend, calls, program, db, uuids, cancelled>>

\* mutant: the handler waits until the slot's appointment is gone
UpdateSlotCheckWaiting(r) ==
  /\ At(r, "updateSlot", "check")
  /\ ~SlotBooked(db, req[r].id)
  /\ req' = [req EXCEPT ![r] = [req[r] EXCEPT !.pc = "write"]]
  /\ UNCHANGED <<frontend, calls, program, db, uuids, cancelled>>

\* PUT /slots/:id, second statement:
\* SELECT * FROM appointments WHERE slot_id = ?
UpdateSlotCheck(r) ==
  /\ At(r, "updateSlot", "check")
  /\ req' = [req EXCEPT ![r] =
       IF SlotBooked(db, req[r].id)
         THEN Reply(req[r], 409, "Cannot edit slot with an existing appointment")
         ELSE [req[r] EXCEPT !.pc = "write"]]
  /\ UNCHANGED <<frontend, calls, program, db, uuids, cancelled>>

\* PUT /slots/:id, third statement: UPDATE slots ... WHERE id = ?
\* a constraint error is not caught: Express answers 500
UpdateSlotWrite(r) ==
  /\ At(r, "updateSlot", "write")
  /\ LET q == req[r]
         upd == UpdateSlotRow(db, q.id, OrElse(q.doctorId, q.s.doctor_id),
                              OrElse(q.date, q.s.date), OrElse(q.time, q.s.time))
     IN IF upd.ok
          THEN /\ db' = upd.db
               /\ req' = [req EXCEPT ![r] = Reply(q, 200, None)]
          ELSE /\ db' = upd.db
               /\ req' = [req EXCEPT ![r] = Reply(q, 500, "uncaught")]
  /\ UNCHANGED <<frontend, calls, program, uuids, cancelled>>

\* DELETE /slots/:id: one DELETE, the cascade is part of the statement
DeleteSlot(r, id) ==
  /\ Free(r)
  /\ Accept
  /\ db' = DeleteSlotRow(db, id)
  /\ cancelled' = cancelled \cup
        {<<a.id, a.slot_id>> : a \in db.appointments \ db'.appointments}
  /\ req' = [req EXCEPT ![r] = Reply(Arrive("deleteSlot", id), 204, None)]
  /\ UNCHANGED <<frontend, program, uuids>>

\* -------------------------------------------------------- APPOINTMENTS
\* POST /appointments, first statement: SELECT * FROM slots WHERE id = ?
BookSelect(r, slotId, patientName) ==
  /\ Free(r)
  /\ Accept
  /\ LET q == [Arrive("book", slotId) EXCEPT !.patientName = trim(patientName)]
     IN IF ~(notEmpty(slotId) /\ notEmpty(q.patientName))
          THEN /\ req' = [req EXCEPT ![r] = Reply(q, 400, "validation")]
               /\ uuids' = uuids
          ELSE IF ~HasSlot(db, slotId)
            THEN /\ req' = [req EXCEPT ![r] = Reply(q, 400, "Slot not found")]
                 /\ uuids' = uuids
            ELSE /\ req' = [req EXCEPT ![r] =
                       [q EXCEPT !.pc = "insert", !.newId = uuidv4(uuids + 1),
                                 !.createdAt = Now(calls')]]
                 /\ uuids' = uuids + 1
  /\ UNCHANGED <<frontend, program, db, cancelled>>

\* mutant: a call that loses the slot tries again on another slot
BookInsertRetry(r) ==
  /\ At(r, "book", "insert")
  /\ LET q == req[r]
         txn == InsertAppointment(db, AppointmentRow(q.newId, q.id, q.patientName,
                                                      q.createdAt))
         others == {x.id : x \in {y \in db.slots : ~SlotBooked(db, y.id)}}
     IN IF txn.ok
          THEN /\ db' = txn.db
               /\ req' = [req EXCEPT ![r] = [q EXCEPT !.pc = "readback"]]
          ELSE /\ db' = txn.db
               /\ req' = [req EXCEPT ![r] =
                     IF others # {}
                       THEN [q EXCEPT !.id = CHOOSE x \in others : TRUE]
                       ELSE Reply(q, 409, "Slot already booked")]
  /\ UNCHANGED <<frontend, calls, program, uuids, cancelled>>

\* POST /appointments, the transaction: INSERT INTO appointments
BookInsert(r) ==
  /\ At(r, "book", "insert")
  /\ LET q == req[r]
         txn == InsertAppointment(db, AppointmentRow(q.newId, q.id, q.patientName,
                                                      q.createdAt))
     IN IF txn.ok
          THEN /\ db' = txn.db
               /\ req' = [req EXCEPT ![r] = [q EXCEPT !.pc = "readback"]]
          ELSE /\ db' = txn.db
               /\ req' = [req EXCEPT ![r] =
                     IF txn.err \in {"SQLITE_CONSTRAINT_PRIMARYKEY",
                                     "SQLITE_CONSTRAINT_UNIQUE",
                                     "SQLITE_CONSTRAINT_FOREIGNKEY"}
                       THEN Reply(q, 409, "Slot already booked")
                       ELSE Reply(q, 500, "Internal error")]
  /\ UNCHANGED <<frontend, calls, program, uuids, cancelled>>

\* POST /appointments, last statement: SELECT * FROM appointments WHERE id = ?
\* .get(id) yields undefined when the row is not there; the answer is 201
\* with whatever was read
BookReadBack(r) ==
  /\ At(r, "book", "readback")
  /\ LET inserted == IF HasAppointment(db, req[r].newId)
                       THEN GetAppointment(db, req[r].newId)
                       ELSE NoAppointment
     IN req' = [req EXCEPT ![r] =
                  [Reply(req[r], 201, None) EXCEPT !.body = inserted]]
  /\ UNCHANGED <<frontend, calls, program, db, uuids, cancelled>>

\* DELETE /appointments/:id
CancelAppointment(r, id) ==
  /\ Free(r)
  /\ Accept
  /\ db' = DeleteAppointmentRow(db, id)
  /\ cancelled' = cancelled \cup
        {<<a.id, a.slot_id>> : a \in db.appointments \ db'.appointments}
  /\ req' = [req EXCEPT ![r] = Reply(Arrive("cancelAppointment", id), 204, None)]
  /\ UNCHANGED <<frontend, program, uuids>>

\* ============================================================ frontend
UidPool == <<"x1", "x2", "x3", "x4", "x5", "x6", "x7", "x8">>
uid(n) == UidPool[n]

Doctor(id, name, speciality, room) ==
  [id |-> id, name |-> name, speciality |-> speciality, room |-> room]
Slot(id, doctorId, date, time) ==
  [id |-> id, doctorId |-> doctorId, date |-> date, time |-> time]
Appointment(id, slotId, patientName, createdAt) ==
  [id |-> id, slotId |-> slotId, patientName |-> patientName,
   status |-> "Confirmed", createdAt |-> createdAt]

defaultState ==
  [doctors |-> {Doctor("D001", "Dr. Asha Mehta", "General Physician", "101"),
                Doctor("D002", "Dr. Rajesh Singh", "Cardiologist", "201")},
   slots |-> {Slot("S1", "D001", Today, "09:00"),
              Slot("S2", "D001", Today, "09:30"),
              Slot("S3", "D002", Today, "10:00")},
   appointments |-> {}]

\* mutant: no slot is ever reported as booked
isSlotBookedNever(st, slotId) == FALSE

isSlotBooked(st, slotId) == \E a \in st.appointments : a.slotId = slotId

\* the modal: the form it shows, the options of its select (the slots a
\* booking form offers, the doctors a slot form offers), the doctor a doctor
\* form was opened for (none: the form adds a doctor), the slot a slot form
\* was opened for (none: the form creates a slot)
closed == [form |-> None, options |-> {}, doctor |-> None, slot |-> None]

Handled(handler, id, alert) == [handler |-> handler, id |-> id, alert |-> alert]

Page == program = "frontend" /\ clicks < MaxClicks /\ clicks' = clicks + 1

\* openBookingModal / openBookingModalForSlot: renderBookingForm lists the
\* slots that are not booked when the form is built
openBookingModal ==
  /\ Page
  /\ modal' = [closed EXCEPT
                 !.form = "booking",
                 !.options = {x.id : x \in {y \in state.slots :
                                              ~isSlotBooked(state, y.id)}}]
  /\ event' = Handled("openBookingModal", None, None)
  /\ UNCHANGED <<program, backend, cancelled, state, uids>>

\* the Confirm Appointment button of the booking form
ConfirmAppointment(slotId, patientName) ==
  /\ Page
  /\ modal.form = "booking"
  /\ IF modal.options = {} THEN slotId = "" ELSE slotId \in modal.options
  /\ IF slotId = "" \/ trim(patientName) = "" \/ isSlotBooked(state, slotId)
       THEN /\ event' = Handled("ConfirmAppointment", slotId,
                  IF slotId = "" THEN "Select a slot"
                  ELSE IF trim(patientName) = "" THEN "Enter patient name"
                  ELSE "Sorry - that slot is already booked")
            /\ UNCHANGED <<state, modal, uids>>
       ELSE /\ state' = [state EXCEPT !.appointments =
                            @ \cup {Appointment(uid(uids + 1), slotId,
                                                trim(patientName), Now(clicks'))}]
            /\ uids' = uids + 1
            /\ modal' = closed
            /\ event' = Handled("ConfirmAppointment", slotId, "Appointment confirmed")
  /\ UNCHANGED <<program, backend, cancelled>>

\* cancelAppointment(appointmentId), with the answer given to confirm()
cancelAppointment(appointmentId, confirmed) ==
  /\ Page
  /\ event' = Handled("cancelAppointment", appointmentId, None)
  /\ IF ~confirmed
       THEN UNCHANGED <<state, cancelled>>
       ELSE /\ state' = [state EXCEPT !.appointments =
                            {a \in @ : a.id # appointmentId}]
            /\ cancelled' = cancelled \cup
                 {<<a.id, a.slotId>> : a \in state.appointments \ state'.appointments}
  /\ UNCHANGED <<program, backend, modal, uids>>

\* openCreateDoctorModal: renderDoctorForm() without a doctor
openCreateDoctorModal ==
  /\ Page
  /\ modal' = [closed EXCEPT !.form = "doctor"]
  /\ event' = Handled("openCreateDoctorModal", None, None)
  /\ UNCHANGED <<program, backend, cancelled, state, uids>>

\* openEditDoctorModal(doctorId): renderDoctorForm(d), the id field disabled
openEditDoctorModal(doctorId) ==
  /\ Page
  /\ IF \E d \in state.doctors : d.id = doctorId
       THEN /\ modal' = [closed EXCEPT !.form = "doctor", !.doctor = doctorId]
            /\ event' = Handled("openEditDoctorModal", doctorId, None)
       ELSE /\ modal' = modal
            /\ event' = Handled("openEditDoctorModal", doctorId,
                                "Doctor not found")
  /\ UNCHANGED <<program, backend, cancelled, state, uids>>

\* the Save button of the doctor form (the field values are trimmed strings)
SaveDoctor(idv, name, spec, room) ==
  /\ Page
  /\ modal.form = "doctor"
  /\ modal.doctor # None => idv = modal.doctor
  /\ LET found == \E d \in state.doctors : d.id = idv
     IN IF idv = "" \/ name = ""
          THEN /\ event' = Handled("SaveDoctor", idv, "ID and name required")
               /\ UNCHANGED <<state, modal>>
          ELSE IF modal.doctor # None
            THEN IF found
              THEN /\ state' = [state EXCEPT !.doctors =
                          {IF d.id = idv THEN Doctor(d.id, name, spec, room)
                                         ELSE d : d \in @}]
                   /\ modal' = closed
                   /\ event' = Handled("SaveDoctor", idv, None)
              ELSE \* Object.assign(undefined, ...) throws a TypeError
                   /\ event' = Handled("SaveDoctor", idv, "TypeError")
                   /\ UNCHANGED <<state, modal>>
            ELSE IF found
              THEN /\ event' = Handled("SaveDoctor", idv,
                                       "Doctor ID already exists")
                   /\ UNCHANGED <<state, modal>>
              ELSE /\ state' = [state EXCEPT !.doctors =
                          @ \cup {Doctor(idv, name, spec, room)}]
                   /\ modal' = closed
                   /\ event' = Handled("SaveDoctor", idv, None)
  /\ UNCHANGED <<program, backend, cancelled, uids>>

\* deleteDoctor(doctorId), with the answer given to confirm(): the slots of
\* other doctors remain, and the appointments found on a remaining slot
deleteDoctor(doctorId, confirmed) ==
  /\ Page
  /\ event' = Handled("deleteDoctor", doctorId, None)
  /\ IF ~confirmed
       THEN UNCHANGED <<state, cancelled>>
       ELSE LET remainingSlots == {x \in state.slots : x.doctorId # doctorId}
                remainingAppointments ==
                  {a \in state.appointments :
                     \E x \in remainingSlots : x.id = a.slotId}
            IN /\ state' = [doctors |-> {d \in state.doctors : d.id # doctorId},
                            slots |-> remainingSlots,
                            appointments |-> remainingAppointments]
               /\ cancelled' = cancelled \cup
                    {<<a.id, a.slotId>> :
                       a \in state.appointments \ remainingAppointments}
  /\ UNCHANGED <<program, backend, modal, uids>>

\* openCreateSlotModal: renderSlotForm lists the doctors there are when the
\* form is built
openCreateSlotModal ==
  /\ Page
  /\ modal' = [closed EXCEPT !.form = "slot",
                             !.options = {d.id : d \in state.doctors}]
  /\ event' = Handled("openCreateSlotModal", None, None)
  /\ UNCHANGED <<program, backend, cancelled, state, uids>>

\* openEditSlotModal(slotId)
openEditSlotModal(slotId) ==
  /\ Page
  /\ IF \E x \in state.slots : x.id = slotId
       THEN /\ modal' = [closed EXCEPT !.form = "slot", !.slot = slotId,
                                       !.options = {d.id : d \in state.doctors}]
            /\ event' = Handled("openEditSlotModal", slotId, None)
       ELSE /\ modal' = modal
            /\ event' = Handled("openEditSlotModal", slotId, "Slot not found")
  /\ UNCHANGED <<program, backend, cancelled, state, uids>>

\* the Save slot button of the slot form
SaveSlot(doctorId, date, time) ==
  /\ Page
  /\ modal.form = "slot"
  /\ IF modal.options = {} THEN doctorId = "" ELSE doctorId \in modal.options
  /\ IF doctorId = "" \/ date = "" \/ time = ""
       THEN /\ event' = Handled("SaveSlot", modal.slot,
                                "Doctor, date and time are required")
            /\ UNCHANGED <<state, modal, uids>>
       ELSE IF modal.slot # None
         THEN IF \E x \in state.slots : x.id = modal.slot
           THEN /\ state' = [state EXCEPT !.slots =
                       {IF x.id = modal.slot
                          THEN Slot(x.id, doctorId, date, time) ELSE x : x \in @}]
                /\ modal' = closed
                /\ event' = Handled("SaveSlot", modal.slot, None)
                /\ uids' = uids
           ELSE \* Object.assign(undefined, ...) throws a TypeError
                /\ event' = Handled("SaveSlot", modal.slot, "TypeError")
                /\ UNCHANGED <<state, modal, uids>>
         ELSE /\ state' = [state EXCEPT !.slots =
                     @ \cup {Slot(uid(uids + 1), doctorId, date, time)}]
              /\ uids' = uids + 1
              /\ modal' = closed
              /\ event' = Handled("SaveSlot", uid(uids + 1), None)
  /\ UNCHANGED <<program, backend, cancelled>>

closeModal ==
  /\ Page
  /\ modal # closed
  /\ modal' = closed
  /\ event' = Handled("closeModal", None, None)
  /\ UNCHANGED <<program, backend, cancelled, state, uids>>

\* ------------------------------------------------------ specification
Init ==
  /\ program \in {"server", "frontend"}
  /\ state = defaultState
  /\ modal = closed
  /\ uids = 0
  /\ event = Handled(None, None, None)
  /\ clicks = 0
  /\ db = SeedDb
  /\ req = [r \in Reqs |-> Idle]
  /\ uuids = 0
  /\ calls = 0
  /\ cancelled = {}

\* the ids a client can have learnt from earlier responses
HandedOut == {uuidv4(n) : n \in 1..uuids}

Next ==
  \/ \E r \in Reqs, d \in DoctorInputs :
        CreateDoctor(r, d.id, d.name, d.speciality, d.room)
  \/ \E r \in Reqs, id \in {"D001", "D009"}, patch \in DoctorPatches :
        UpdateDoctorSelect(r, id, patch.name, patch.speciality, patch.room)
  \/ \E r \in Reqs : UpdateDoctorWrite(r)
  \/ \E r \in Reqs, id \in SeedDoctorIds : DeleteDoctor(r, id)
  \/ \E r \in Reqs, doctorId \in {"D001", "D009"} :
        CreateSlotSelect(r, doctorId, "2024-01-10", "09:00")
  \/ \E r \in Reqs : CreateSlotInsert(r)
  \/ \E r \in Reqs, id \in PatchedSlots, patch \in Patches :
        UpdateSlotSelect(r, id, patch.doctorId, patch.date, patch.time)
  \/ \E r \in Reqs : UpdateSlotCheck(r)
  \/ \E r \in Reqs : UpdateSlotWrite(r)
  \/ \E r \in Reqs, id \in TargetSlots : DeleteSlot(r, id)
  \/ \E r \in Reqs, b \in BookInputs : BookSelect(r, b.slotId, b.patientName)
  \/ \E r \in Reqs : BookInsert(r)
  \/ \E r \in Reqs : BookReadBack(r)
  \/ \E r \in Reqs, id \in HandedOut : CancelAppointment(r, id)
  \/ openBookingModal
  \/ \E slotId \in {""} \cup modal.options, patientName \in {"", "  ", "Alice"} :
        ConfirmAppointment(slotId, patientName)
  \/ \E a \in state.appointments, confirmed \in BOOLEAN :
        cancelAppointment(a.id, confirmed)
  \/ \E d \in state.doctors, confirmed \in BOOLEAN :
        deleteDoctor(d.id, confirmed)
  \/ openCreateSlotModal
  \/ \E x \in state.slots : openEditSlotModal(x.id)
  \/ \E doctorId \in {""} \cup modal.options, f \in SlotForms :
        SaveSlot(doctorId, f.date, f.time)
  \/ openCreateDoctorModal
  \/ \E d \in state.doctors : openEditDoctorModal(d.id)
  \/ \E f \in DoctorForms :
        SaveDoctor(IF modal.doctor = None THEN f.id ELSE modal.doctor,
                   f.name, f.speciality, f.room)
  \/ closeModal

Spec == Init /\ [][Next]_vars

\* Fair scheduling: a handler that has started runs on; each of its
\* statements is a synchronous call that returns or throws.
Fairness ==
  \A r \in Reqs :
    /\ WF_vars(UpdateDoctorWrite(r))
    /\ WF_vars(CreateSlotInsert(r))
    /\ WF_vars(UpdateSlotCheck(r))
    /\ WF_vars(UpdateSlotWrite(r))
    /\ WF_vars(BookInsert(r))
    /\ WF_vars(BookReadBack(r))

\* The operations of the backend, one request of each kind on the seeded
\* doctor D001 and its slot SL1, under fair scheduling.
FairInit == Init /\ program = "server"

FairNext ==
  \/ \E r \in Reqs : CreateDoctor(r, "D009", "Dr. New", None, None)
  \/ \E r \in Reqs : UpdateDoctorSelect(r, "D001", "Dr. New", None, None)
  \/ \E r \in Reqs : UpdateDoctorWrite(r)
  \/ \E r \in Reqs : DeleteDoctor(r, "D001")
  \/ \E r \in Reqs : CreateSlotSelect(r, "D001", "2024-01-10", "09:00")
  \/ \E r \in Reqs : CreateSlotInsert(r)
  \/ \E r \in Reqs : UpdateSlotSelect(r, "SL1", None, None, "10:00")
  \/ \E r \in Reqs : UpdateSlotCheck(r)
  \/ \E r \in Reqs : UpdateSlotWrite(r)
  \/ \E r \in Reqs : DeleteSlot(r, "SL1")
  \/ \E r \in Reqs : BookSelect(r, "SL1", "Alice")
  \/ \E r \in Reqs : BookInsert(r)
  \/ \E r \in Reqs : BookReadBack(r)
  \/ \E r \in Reqs, id \in HandedOut : CancelAppointment(r, id)

SpecFair == FairInit /\ [][FairNext]_vars /\ Fairness

\* The booking race: MaxRace book calls on one slot, nothing else running.
RaceSlot == "SL1"
RaceReqs == 1..MaxRace

RaceInit ==
  /\ program = "server"
  /\ db = SeedDb
  /\ req = [r \in RaceReqs |-> Idle]
  /\ uuids = 0
  /\ calls = 0
  /\ cancelled = {}
  /\ state = defaultState
  /\ modal = closed
  /\ uids = 0
  /\ event = Handled(None, None, None)
  /\ clicks = 0

RaceNext ==
  \/ \E r \in RaceReqs, patientName \in {"Alice", "Bob"} :
        BookSelect(r, RaceSlot, patientName)
  \/ \E r \in RaceReqs : BookInsert(r)
  \/ \E r \in RaceReqs : BookReadBack(r)

SpecRace == RaceInit /\ [][RaceNext]_vars

\* ============================================================== claims
\* the step in which context r accepts a request of kind op
Accepted(r, op) ==
  /\ calls' = calls + 1
  /\ ~InUse(r) /\ \A o \in DOMAIN req : o < r => InUse(o)
  /\ req'[r].op = op

\* the step in which context r runs the statement at position pc of op
Stepped(r, op, pc) == req[r].op = op /\ req[r].pc = pc /\ req'[r] # req[r]

Responses(op, code) ==
  {r \in DOMAIN req : req[r].pc = "done" /\ req[r].op = op /\ req[r].status = code}

\* the domain kind a response reports: the handlers carry it in the status
\* code and in the error text of the body
Kind(q) ==
  IF q.status \in {200, 201, 204} THEN "Ok"
  ELSE IF q.error = "validation" THEN "InvalidInput"
  ELSE IF q.error \in {"Doctor not found", "Slot not found"} THEN "NotFound"
  ELSE IF q.error = "Doctor ID already exists" THEN "DuplicateKey"
  ELSE IF q.error \in {"Slot already booked",
                       "Cannot edit slot with an existing appointment"}
    THEN "Conflict"
  ELSE IF q.error = "Internal error" THEN "InternalError"
  ELSE "StorageError"

\* C1: in every reachable state of the backend no two appointments have the
\* same slot_id.
C1_OneAppointmentPerSlot ==
  \A a, b \in db.appointments : a.slot_id = b.slot_id => a = b

\* two book calls were both past the slot lookup on the same slot; one
\* inserted its appointment, the other was refused
C1_Witness ==
  /\ \E r \in DOMAIN req : req[r].op = "book" /\ req[r].pc = "readback"
                            /\ SlotBooked(db, req[r].id)
  /\ \E r \in Responses("book", 409) : SlotBooked(db, req[r].id)

\* C2: when the N book calls of the race (non-empty patientName, same
\* existing unbooked slot, no cancel or delete running) have all returned,
\* exactly one has returned the appointment (201) and N-1 have returned
\* Conflict (409).
C2_OneWinner ==
  (\A r \in DOMAIN req : req[r].pc = "done")
    => /\ Cardinality(Responses("book", 201)) = 1
       /\ Cardinality(Responses("book", 409)) = Cardinality(DOMAIN req) - 1
       /\ Cardinality({a \in db.appointments : a.slot_id = RaceSlot}) = 1

C2_Witness ==
  /\ \A r \in DOMAIN req : req[r].pc = "done" /\ req[r].id = RaceSlot
  /\ Cardinality(DOMAIN req) >= 2
  /\ Responses("book", 201) # {}

\* C3 as stated: a book call past the slot lookup succeeds at its insert
\* iff no appointment references the slot at that instant.
C3_AsStated ==
  [][\A r \in DOMAIN req :
       Stepped(r, "book", "insert")
         => (req'[r].pc = "readback" <=> ~SlotBooked(db, req[r].id))]_vars

\* C3 amended: a book call past the slot lookup succeeds at its insert iff,
\* at that instant, the slot still exists and no appointment references it;
\* what earlier reads showed plays no part.
C3_DecidedAtInsert ==
  [][\A r \in DOMAIN req :
       Stepped(r, "book", "insert")
         => /\ req'[r].pc = "readback"
                 <=> (HasSlot(db, req[r].id) /\ ~SlotBooked(db, req[r].id))
            /\ req'[r].pc = "readback"
                 <=> (\E a \in db'.appointments \ db.appointments :
                        a.id = req[r].newId /\ a.slot_id = req[r].id)
            /\ req'[r].pc # "readback" => db' = db /\ req'[r].pc = "done"]_vars

\* a call whose lookup saw the slot lost: the slot was deleted, or booked by
\* another call, before its insert
C3_Witness ==
  /\ \E r \in Responses("book", 409) : ~HasSlot(db, req[r].id)
  /\ Responses("deleteSlot", 204) # {}

\* C4: the backend's deleteDoctor(id) on an existing doctor removes that
\* doctor, exactly the slots whose doctor_id is id and exactly the
\* appointments on those slots; every other row is unchanged.
C4_DeleteDoctorFrame ==
  [][\A r \in DOMAIN req :
       (Accepted(r, "deleteDoctor") /\ HasDoctor(db, req'[r].id))
         => LET id == req'[r].id
                owned == {x \in db.slots : x.doctor_id = id}
                booked == {a \in db.appointments :
                             \E x \in owned : x.id = a.slot_id}
            IN /\ db'.doctors = db.doctors \ {GetDoctor(db, id)}
               /\ db'.slots = db.slots \ owned
               /\ db'.appointments = db.appointments \ booked]_vars

\* D001 was deleted with its two slots and the appointment on one of them,
\* while D002, its slot and the appointment on it are still there
C4_Witness ==
  /\ \E r \in Responses("deleteDoctor", 204) : req[r].id = "D001"
  /\ ~HasDoctor(db, "D001") /\ ~HasSlot(db, "SL1") /\ ~HasSlot(db, "SL2")
  /\ \E c \in cancelled : c[2] = "SL1"
  /\ HasDoctor(db, "D002") /\ SlotBooked(db, "SL3")

\* C5: in every state of the backend store, also between the statements of
\* concurrently running requests, every slot's doctor_id names an existing
\* doctor and every appointment's slot_id names an existing slot.
C5_NoOrphan ==
  /\ \A x \in db.slots : HasDoctor(db, x.doctor_id)
  /\ \A a \in db.appointments : HasSlot(db, a.slot_id)

\* a createSlot saw its doctor and lost it to a deleteDoctor before the
\* insert
C5_Witness ==
  /\ \E r \in Responses("createSlot", 500) : TRUE
  /\ Responses("deleteDoctor", 204) # {}
  /\ ~HasDoctor(db, "D001")

\* C6: the backend's deleteSlot(id) on an existing slot removes, in one
\* step, that slot and the appointment referencing it if there is one; all
\* doctors, other slots and other appointments are unchanged.
C6_DeleteSlotFrame ==
  [][\A r \in DOMAIN req :
       (Accepted(r, "deleteSlot") /\ HasSlot(db, req'[r].id))
         => LET id == req'[r].id
            IN /\ db'.doctors = db.doctors
               /\ db'.slots = db.slots \ {GetSlot(db, id)}
               /\ db'.appointments =
                    db.appointments \ {a \in db.appointments : a.slot_id = id}]_vars

\* SL1 was deleted together with its appointment; the appointment on SL3
\* is still there
C6_Witness ==
  /\ \E r \in Responses("deleteSlot", 204) : req[r].id = "SL1"
  /\ ~HasSlot(db, "SL1") /\ HasSlot(db, "SL2")
  /\ \E c \in cancelled : c[2] = "SL1"
  /\ SlotBooked(db, "SL3")

\* C7: cancelAppointment(id) on an existing appointment removes only that
\* appointment; every slot, every doctor and every other appointment is
\* unchanged (backend and demo frontend).
C7_CancelFrame ==
  [][/\ \A r \in DOMAIN req :
          (Accepted(r, "cancelAppointment") /\ HasAppointment(db, req'[r].id))
            => /\ db'.doctors = db.doctors
               /\ db'.slots = db.slots
               /\ db'.appointments =
                    db.appointments \ {a \in db.appointments : a.id = req'[r].id}
               /\ Cardinality(db'.appointments) = Cardinality(db.appointments) - 1
     /\ (clicks' = clicks + 1 /\ event'.handler = "cancelAppointment"
           /\ state' # state)
            => /\ state'.doctors = state.doctors
               /\ state'.slots = state.slots
               /\ state'.appointments =
                    state.appointments \ {a \in state.appointments : a.id = event'.id}
               /\ Cardinality(state'.appointments) =
                    Cardinality(state.appointments) - 1]_vars

\* one of two appointments was cancelled (backend or frontend)
C7_Witness ==
  \/ /\ \E r \in Responses("cancelAppointment", 204) :
          \E c \in cancelled : c[1] = req[r].id
      /\ db.appointments # {} /\ db.slots = SeedDb.slots
  \/ /\ event.handler = "cancelAppointment"
      /\ \E c \in cancelled : c[1] = event.id
      /\ state.slots = defaultState.slots

\* C8: an insert attempt of book on a slot that has an appointment is
\* refused with Conflict; cancelling an existing appointment leaves the slots
\* as they are and its slot unbooked; an insert attempt on an existing unbooked slot
\* succeeds, and the id of the new appointment is the id of no appointment
\* deleted before (backend and demo frontend).
C8_RebookAfterCancel ==
  [][/\ \A r \in DOMAIN req :
          /\ (Stepped(r, "book", "insert") /\ SlotBooked(db, req[r].id))
                => req'[r].status = 409 /\ db' = db
          /\ (Stepped(r, "book", "insert") /\ HasSlot(db, req[r].id)
                 /\ ~SlotBooked(db, req[r].id))
                => /\ req'[r].pc = "readback"
                   /\ \E a \in db'.appointments :
                        /\ a.slot_id = req[r].id
                        /\ a.patient_name = req[r].patientName
                        /\ \A c \in cancelled : c[1] # a.id
          /\ Stepped(r, "book", "readback") => req'[r].status = 201
          /\ Accepted(r, "cancelAppointment")
                => \A a \in db.appointments :
                     a.id = req'[r].id
                       => HasSlot(db', a.slot_id) /\ ~SlotBooked(db', a.slot_id)
     /\ (clicks' = clicks + 1 /\ event'.handler = "ConfirmAppointment")
          => IF isSlotBooked(state, event'.id)
               THEN state' = state
                    /\ event'.alert = "Sorry - that slot is already booked"
               ELSE state' # state
                    => \E a \in state'.appointments \ state.appointments :
                         /\ a.slotId = event'.id
                         /\ \A c \in cancelled : c[1] # a.id
     /\ (clicks' = clicks + 1 /\ event'.handler = "cancelAppointment"
           /\ state' # state)
          => \A a \in state.appointments :
               a.id = event'.id
                 => /\ state'.slots = state.slots
                    /\ ~isSlotBooked(state', a.slotId)]_vars

\* a slot carries an appointment whose predecessor on the same slot was
\* cancelled (backend: the book call has returned 201)
C8_Witness ==
  \/ /\ \E a \in db.appointments :
          \E c \in cancelled : c[2] = a.slot_id /\ c[1] # a.id
      /\ Responses("book", 201) # {}
      /\ db.slots = SeedDb.slots
  \/ \E a \in state.appointments :
        \E c \in cancelled : c[2] = a.slotId /\ c[1] # a.id

\* C9: when the backend's updateSlot finds an appointment on the slot, it
\* answers Conflict whatever the patch is (any subset of doctorId, date,
\* time, the empty patch included) and writes nothing.
C9_UpdateBookedSlotConflict ==
  [][\A r \in DOMAIN req :
       /\ (Stepped(r, "updateSlot", "check") /\ SlotBooked(db, req[r].id))
            => /\ req'[r].pc = "done" /\ req'[r].status = 409
               /\ db' = db
       /\ (Accepted(r, "updateSlot") /\ SlotBooked(db, req'[r].id))
            => req'[r].pc = "check" /\ db' = db]_vars

\* an updateSlot on the booked slot SL1 was answered with Conflict
C9_Witness ==
  /\ \E r \in Responses("updateSlot", 409) : SlotBooked(db, req[r].id)
  /\ GetSlot(db, "SL1") = GetSlot(SeedDb, "SL1")

\* C10: while an appointment references a slot, the slot's doctor_id, date
\* and time do not change.
C10_BookedSlotFrozen ==
  [][\A a \in db.appointments \cap db'.appointments :
       \A x \in db.slots : x.id = a.slot_id => x \in db'.slots]_vars

\* C11: a book call whose slotId names no existing slot is answered with
\* NotFound whatever its patientName is, and the store is unchanged.
C11_MissingSlotNotFound ==
  [][\A r \in DOMAIN req :
       (Accepted(r, "book") /\ ~HasSlot(db, req'[r].id))
         => /\ req'[r].pc = "done"
            /\ Kind(req'[r]) = "NotFound"
            /\ db' = db]_vars

\* C12: a book call is answered with Conflict only if, at its insert attempt,
\* the slot exists and has an appointment; an insert that fails because the
\* slot no longer exists is answered with NotFound.
C12_ConflictOnlyWhenBooked ==
  [][\A r \in DOMAIN req :
       (Stepped(r, "book", "insert") /\ req'[r].pc = "done")
         => /\ Kind(req'[r]) = "Conflict"
                 => HasSlot(db, req[r].id) /\ SlotBooked(db, req[r].id)
            /\ ~HasSlot(db, req[r].id) => Kind(req'[r]) = "NotFound"]_vars

\* C13: a book call that reports success returns the persisted appointment:
\* the generated id, the requested slot, the given patientName and status
\* Confirmed, whatever runs between its insert and its read-back.
C13_SuccessReturnsAppointment ==
  [][\A r \in DOMAIN req :
       (Stepped(r, "book", "readback") /\ req'[r].status = 201)
         => req'[r].body =
              AppointmentRow(req[r].newId, req[r].id, req[r].patientName,
                             req[r].createdAt)]_vars

\* C14: a createSlot (well-formed date and time) whose doctorId names no
\* existing doctor is answered with NotFound at the doctor lookup and adds
\* no slot; only a call whose doctor exists goes on to the insert, and after
\* the insert, whatever deleteDoctor did in between, no slot is without its
\* doctor and a slot was added only if the doctor still existed.
C14_CreateSlotNeedsDoctor ==
  [][\A r \in DOMAIN req :
       /\ Accepted(r, "createSlot")
            => /\ db' = db
               /\ req'[r].pc = "insert" => HasDoctor(db, req'[r].doctorId)
               /\ req'[r].pc = "done" => Kind(req'[r]) = "NotFound"
       /\ Stepped(r, "createSlot", "insert")
            => /\ \A x \in db'.slots : HasDoctor(db', x.doctor_id)
               /\ ~HasDoctor(db, req[r].doctorId)
                    => db' = db /\ Kind(req'[r]) # "Ok"]_vars

\* a createSlot was answered 'Doctor not found' and the slots are the seeded
\* ones
C14_Witness ==
  /\ \E r \in Responses("createSlot", 400) : Kind(req[r]) = "NotFound"
  /\ db.slots = SeedDb.slots

\* C15: a createDoctor (non-empty id and name) whose id already exists is
\* answered with DuplicateKey and leaves the doctors, the existing doctor's
\* name, speciality and room included, as they were (backend and demo
\* frontend); no two doctors ever have the same id.
C15_DuplicateDoctorRefused ==
  [][/\ \A r \in DOMAIN req :
          (Accepted(r, "createDoctor") /\ HasDoctor(db, req'[r].id)
             /\ req'[r].error # "validation")
            => /\ Kind(req'[r]) = "DuplicateKey"
               /\ db' = db
     /\ (clicks' = clicks + 1 /\ event'.handler = "SaveDoctor"
           /\ modal.doctor = None
           /\ (\E d \in state.doctors : d.id = event'.id)
           /\ event'.alert # "ID and name required")
          => /\ event'.alert = "Doctor ID already exists"
             /\ state' = state
     /\ \A a, b \in db'.doctors : a.id = b.id => a = b
     /\ \A a, b \in state'.doctors : a.id = b.id => a = b]_vars

\* a second doctor D001 was refused: the seeded D001 is as it was
C15_Witness ==
  \/ /\ \E r \in Responses("createDoctor", 409) : req[r].id = "D001"
      /\ GetDoctor(SeedDb, "D001") \in db.doctors
  \/ /\ event.handler = "SaveDoctor" /\ event.id = "D001"
      /\ event.alert = "Doctor ID already exists"
      /\ state.doctors = defaultState.doctors

\* C16: deleteDoctor, deleteSlot and cancelAppointment with an id that names
\* no existing doctor, slot or appointment are answered with NotFound and
\* leave the store unchanged.
C16_DeleteMissingNotFound ==
  [][\A r \in DOMAIN req :
       \/ Accepted(r, "deleteDoctor") /\ ~HasDoctor(db, req'[r].id)
       \/ Accepted(r, "deleteSlot") /\ ~HasSlot(db, req'[r].id)
       \/ Accepted(r, "cancelAppointment") /\ ~HasAppointment(db, req'[r].id)
       => Kind(req'[r]) = "NotFound" /\ db' = db]_vars

\* C17: updateDoctor(id, patch) changes at most the name, speciality and
\* room of doctor id: the doctor ids, every other doctor, every slot and
\* every appointment are unchanged, and each of the three fields is either
\* the one given or the one the doctor had (backend and demo frontend).
C17_UpdateDoctorFrame ==
  [][/\ \A r \in DOMAIN req :
          /\ Accepted(r, "updateDoctor") => db' = db
          /\ Stepped(r, "updateDoctor", "write")
               => /\ db'.slots = db.slots
                  /\ db'.appointments = db.appointments
                  /\ {x.id : x \in db'.doctors} = {x.id : x \in db.doctors}
                  /\ \A x \in db.doctors : x.id # req[r].id => x \in db'.doctors
                  /\ \A x \in db'.doctors :
                       x.id = req[r].id
                         => /\ x.name \in {req[r].name, req[r].doc.name}
                            /\ x.speciality \in {req[r].speciality,
                                                  req[r].doc.speciality}
                            /\ x.room \in {req[r].room, req[r].doc.room}
     /\ (clicks' = clicks + 1 /\ event'.handler = "SaveDoctor"
           /\ modal.doctor # None)
          => /\ state'.slots = state.slots
             /\ state'.appointments = state.appointments
             /\ {x.id : x \in state'.doctors} = {x.id : x \in state.doctors}
             /\ \A x \in state.doctors :
                  x.id # modal.doctor => x \in state'.doctors]_vars

\* D001 carries the new name (backend) or the new fields (frontend); D002,
\* the slots and an appointment are as they were
C17_Witness ==
  \/ /\ \E r \in Responses("updateDoctor", 200) : req[r].id = "D001"
      /\ \E x \in db.doctors : x.id = "D001" /\ x.name = "Dr. New"
      /\ GetDoctor(SeedDb, "D002") \in db.doctors
      /\ db.slots = SeedDb.slots /\ db.appointments # {}
  \/ /\ event.handler = "SaveDoctor" /\ event.alert = None
      /\ \E x \in state.doctors : x.id = "D001" /\ x.speciality = "ENT"
      /\ state.slots = defaultState.slots /\ state.appointments # {}

\* C18: updateDoctor and updateSlot with an id that names no existing doctor
\* or slot are answered with NotFound and change nothing; an update that is
\* answered with success was written to a doctor or slot that exists at the
\* write.
C18_UpdateNeedsEntity ==
  [][\A r \in DOMAIN req :
       /\ (Accepted(r, "updateDoctor") /\ ~HasDoctor(db, req'[r].id))
            => Kind(req'[r]) = "NotFound" /\ db' = db
       /\ (Accepted(r, "updateSlot") /\ ~HasSlot(db, req'[r].id))
            => Kind(req'[r]) = "NotFound" /\ db' = db
       /\ (Stepped(r, "updateDoctor", "write") /\ req'[r].status = 200)
            => HasDoctor(db, req[r].id)
       /\ (Stepped(r, "updateSlot", "write") /\ req'[r].status = 200)
            => HasSlot(db, req[r].id)]_vars

\* C19: every call that has returned either succeeded or failed with one of
\* NotFound, DuplicateKey, Conflict, InvalidInput: none ends in a storage
\* constraint error or a generic internal error.
C19_DomainErrorsOnly ==
  \A r \in DOMAIN req :
    req[r].pc = "done"
      => Kind(req[r]) \in {"Ok", "NotFound", "DuplicateKey", "Conflict",
                           "InvalidInput"}

\* the calls that have returned a failure
Failures == {r \in DOMAIN req : req[r].pc = "done" /\ Kind(req[r]) # "Ok"}

\* C20: a call that returns a failure has written nothing: the step that
\* sends the failure leaves doctors, slots and appointments as they are, and
\* the only steps of a call that change the store are the ones that lead to
\* its success.  The store stays usable: with failures behind it, an insert
\* of book on an existing unbooked slot, a createSlot insert for an existing
\* doctor and a createDoctor with a new id and a name succeed.
C20_FailureLeavesStore ==
  [][\A r \in DOMAIN req :
       /\ (req'[r] # req[r] /\ req'[r].pc = "done" /\ Kind(req'[r]) # "Ok")
            => db' = db
       /\ (req'[r] # req[r] /\ db' # db)
            => \/ req'[r].pc = "done" /\ Kind(req'[r]) = "Ok"
               \/ req[r].op = "book" /\ req'[r].pc = "readback"
       /\ Stepped(r, "book", "readback") => Kind(req'[r]) = "Ok"
       /\ (Failures # {} /\ Stepped(r, "book", "insert")
             /\ HasSlot(db, req[r].id) /\ ~SlotBooked(db, req[r].id))
            => req'[r].pc = "readback" /\ SlotBooked(db', req[r].id)
       /\ (Failures # {} /\ Stepped(r, "createSlot", "insert")
             /\ HasDoctor(db, req[r].doctorId))
            => Kind(req'[r]) = "Ok" /\ HasSlot(db', req[r].newId)
       /\ (Failures # {} /\ Accepted(r, "createDoctor")
             /\ req'[r].error # "validation" /\ ~HasDoctor(db, req'[r].id))
            => Kind(req'[r]) = "Ok" /\ HasDoctor(db', req'[r].id)]_vars

\* an updateSlot has failed on its write and left SL1 as seeded; a book on
\* SL3 has inserted its appointment
C20_Witness ==
  /\ \E o \in Failures : req[o].op = "updateSlot" /\ req[o].status = 500
  /\ \E r \in DOMAIN req : req[r].op = "book" /\ req[r].pc = "readback"
                            /\ req[r].id = "SL3"
  /\ db.slots = SeedDb.slots /\ db.doctors = SeedDb.doctors
  /\ SlotBooked(db, "SL3")

\* C21: a book call makes one insert attempt, for the slotId it was given:
\* the insert position is entered only when the call is accepted and is
\* left by the attempt, whatever its outcome; the attempt adds at most the
\* row (generated id, given slotId) and removes none; a refused call has
\* returned and written nothing; the slotId of a call never changes.
C21_OneInsertAttempt ==
  [][\A r \in DOMAIN req :
       /\ Stepped(r, "book", "insert")
            => /\ req'[r].pc \in {"readback", "done"}
               /\ req'[r].id = req[r].id
               /\ db.appointments \subseteq db'.appointments
               /\ \A a \in db'.appointments \ db.appointments :
                    a.id = req[r].newId /\ a.slot_id = req[r].id
               /\ req'[r].pc = "done"
                    => Kind(req'[r]) = "Conflict" /\ db' = db
       /\ (req'[r].op = "book" /\ req'[r].pc = "insert" /\ req'[r] # req[r])
            => Accepted(r, "book")
       /\ Stepped(r, "book", "readback")
            => req'[r].pc = "done" /\ req'[r].id = req[r].id /\ db' = db]_vars

\* a call lost SL1 to another call and has returned Conflict: the only
\* appointment is the winner's, the free slots are still free
C21_Witness ==
  /\ \E r \in Responses("book", 409) : req[r].id = "SL1" /\ SlotBooked(db, "SL1")
  /\ Cardinality(db.appointments) = 1
  /\ HasSlot(db, "SL3") /\ ~SlotBooked(db, "SL3")

\* C22: under fair scheduling every call that a handler has started
\* eventually returns, with a success or a failure.
C22_EveryCallReturns ==
  \A r \in Reqs : InUse(r) ~> (req[r].pc = "done")

\* an updateSlot that found the slot booked while a book call was still
\* running has returned; so has the book call
C22_Witness ==
  /\ \E r \in Responses("updateSlot", 409) : TRUE
  /\ \E r \in Responses("book", 201) : TRUE
  /\ \A r \in DOMAIN req : req[r].pc = "done"

\* C23: an appointment appears only at the successful insert of a book call
\* (frontend: a confirmed booking), as the record that call built, with
\* status Confirmed; as long as an appointment with its id exists, its
\* slot, patient name, status and creation time are the same.
C23_AppointmentImmutable ==
  [][/\ \A a \in db'.appointments :
          /\ a.status = "Confirmed"
          /\ \/ a \in db.appointments
             \/ \E r \in DOMAIN req :
                  /\ Stepped(r, "book", "insert") /\ req'[r].pc = "readback"
                  /\ a = AppointmentRow(req[r].newId, req[r].id,
                                        req[r].patientName, req[r].createdAt)
     /\ \A a \in db.appointments, b \in db'.appointments : a.id = b.id => a = b
     /\ \A a \in state'.appointments :
          /\ a.status = "Confirmed"
          /\ \/ a \in state.appointments
             \/ /\ event'.handler = "ConfirmAppointment"
                /\ event'.alert = "Appointment confirmed"
                /\ a.slotId = event'.id /\ a.createdAt = Now(clicks')
     /\ \A a \in state.appointments, b \in state'.appointments :
          a.id = b.id => a = b]_vars

\* an appointment has outlived two later requests (user actions)
C23_Witness ==
  \/ \E a \in db.appointments : Now(calls) >= a.created_at + 2
  \/ \E a \in state.appointments :
        Now(clicks) >= a.createdAt + 2 /\ event.handler # "closeModal"

\* C24: in the demo frontend, after any sequence of user actions, no two
\* appointments of state.appointments have the same slotId.
C24_FrontendOneAppointmentPerSlot ==
  \A a, b \in state.appointments : a.slotId = b.slotId => a = b

\* a second booking was confirmed: two slots carry an appointment each
C24_Witness ==
  /\ event.handler = "ConfirmAppointment"
  /\ event.alert = "Appointment confirmed"
  /\ Cardinality({a.slotId : a \in state.appointments}) >= 2

\* C25: the frontend's deleteDoctor(doctorId) either leaves the state as it
\* is (confirmation declined) or removes the doctor, exactly the slots with
\* that doctorId and exactly the appointments on those slots.
C25_FrontendDeleteDoctorFrame ==
  [][(clicks' = clicks + 1 /\ event'.handler = "deleteDoctor")
       => \/ state' = state
          \/ LET id == event'.id
                 owned == {x \in state.slots : x.doctorId = id}
                 booked == {a \in state.appointments :
                              \E x \in owned : x.id = a.slotId}
             IN /\ state'.doctors = {d \in state.doctors : d.id # id}
                /\ state'.slots = state.slots \ owned
                /\ state'.appointments = state.appointments \ booked]_vars

\* C26: in the demo frontend, Save on the edit form of a slot that has an
\* appointment is rejected: the user is told so and the slot's doctorId,
\* date and time stay as they are.
C26_FrontendBookedSlotEditRejected ==
  [][(clicks' = clicks + 1 /\ event'.handler = "SaveSlot"
        /\ modal.slot # None /\ isSlotBooked(state, modal.slot))
       => /\ state'.slots = state.slots
          /\ event'.alert # None]_vars

\* C27: in the demo frontend, after any sequence of user actions, every
\* appointment's slotId names a slot of state.slots and every slot's
\* doctorId names a doctor of state.doctors.
C27_FrontendNoOrphan ==
  /\ \A a \in state.appointments : \E x \in state.slots : x.id = a.slotId
  /\ \A x \in state.slots : \E d \in state.doctors : d.id = x.doctorId

\* C28: a book call with an empty or whitespace-only patientName never
\* reaches the insert: a call that goes on to the insert has a non-blank
\* name; a call that returns at once has written nothing and reports
\* InvalidInput, or NotFound when the slot does not exist; no appointment
\* ever has a blank patient name.  In the demo frontend a confirm with a
\* blank name alerts and changes nothing.
C28_BlankNameRefused ==
  [][/\ \A r \in DOMAIN req :
          Accepted(r, "book")
            => /\ req'[r].pc \in {"insert", "done"}
               /\ db' = db
               /\ req'[r].pc = "insert" => req'[r].patientName \notin Blank
               /\ req'[r].pc = "done"
                    => /\ Kind(req'[r]) \in {"InvalidInput", "NotFound"}
                       /\ Kind(req'[r]) = "NotFound" => ~HasSlot(db, req'[r].id)
     /\ \A a \in db'.appointments : a.patient_name \notin Blank
     /\ (clicks' = clicks + 1 /\ event'.handler = "ConfirmAppointment"
           /\ event'.alert = "Enter patient name")
          => state' = state /\ modal' = modal
     /\ \A a \in state'.appointments : a.patientName \notin Blank]_vars

\* a book on SL1 was refused by the validators (backend), or a confirm by
\* the name check (frontend); the slot is there and unbooked
C28_Witness ==
  \/ /\ \E r \in Responses("book", 400) :
          req[r].id = "SL1" /\ Kind(req[r]) = "InvalidInput"
      /\ HasSlot(db, "SL1") /\ ~SlotBooked(db, "SL1")
  \/ /\ event.handler = "ConfirmAppointment" /\ event.id = "S1"
      /\ event.alert = "Enter patient name"
      /\ ~isSlotBooked(state, "S1") /\ modal.form = "booking"

====
